---- MODULE Spec2Model ----
(***************************************************************************)
(* A model of cli/tools/task.rs: the `deno task` driver (execute_script),  *)
(* script templating, the environment builder and the npm command table.   *)
(*                                                                         *)
(* Text is modelled as a sequence of one-character strings where the code  *)
(* edits it character by character (scripts, arguments); names that are    *)
(* only compared or prefixed are TLA+ strings.  Option<T> is a sequence of *)
(* length at most one; an IndexMap is a sequence of [key, value] records   *)
(* with distinct keys (insertion order kept); a HashMap is a function.     *)
(***************************************************************************)
EXTENDS Integers, Sequences, FiniteSets, TLC

\* ------------------------------------------------------------------ bounds

\* exit codes of a shell run (an i32) are drawn from -1 and 0 .. MaxExit
MaxExit == 1
\* the configuration file declares at most this many tasks
MaxConfigTasks == 2
\* how many times a directory is prepended to PATH
MaxPrepends == 3
\* the longest pass-through argument
MaxArgLen == 2

\* ------------------------------------------------------------- basic types

None == <<>>
Some(x) == <<x>>
IsSome(o) == Len(o) = 1
Unwrap(o) == o[1]

Range(s) == {s[i] : i \in 1..Len(s)}

\* HashMap as a function
EmptyMap == [k \in {} |-> None]
ContainsKey(m, k) == k \in DOMAIN m
Insert(m, k, v) == [x \in (DOMAIN m) \cup {k} |-> IF x = k THEN v ELSE m[x]]

\* IndexMap as a sequence of entries
IndexKeys(m) == {m[i].key : i \in 1..Len(m)}
IndexContainsKey(m, k) == k \in IndexKeys(m)
IndexGet(m, k) ==
  IF IndexContainsKey(m, k)
    THEN Some((CHOOSE e \in Range(m) : e.key = k).value)
    ELSE None

\* ------------------------------------------------------------------ inputs

TaskNames == {"build", "prebuild", "postbuild"}

\* the script text the configuration file gives a task
ConfigText(name) ==
  CASE name = "build" -> <<"c", "b">>
    [] name = "prebuild" -> <<"c", "p">>
    [] OTHER -> <<"c", "q", " ">>

\* the script text package.json gives a script
ManifestText(name) ==
  CASE name = "build" -> <<"m", "b">>
    [] name = "prebuild" -> <<"m", "p", " ">>
    [] OTHER -> <<"m", "q">>

\* sequences without repetition over a set, up to a length
RECURSIVE OrderedKeys(_, _)
OrderedKeys(S, n) ==
  IF n = 0 THEN {<<>>}
  ELSE LET shorter == OrderedKeys(S, n - 1)
       IN shorter \cup {Append(s, k) : s \in {t \in shorter : Len(t) = n - 1},
                                       k \in S}

Distinct(s) == \A i, j \in 1..Len(s) : i # j => s[i] # s[j]

TaskMaps ==
  {[i \in 1..Len(ks) |-> [key |-> ks[i], value |-> ConfigText(ks[i])]] :
     ks \in {s \in OrderedKeys(TaskNames, MaxConfigTasks) : Distinct(s)}}

ManifestScriptMaps ==
  {[i \in 1..Len(ks) |-> [key |-> ks[i], value |-> ManifestText(ks[i])]] :
     ks \in {s \in OrderedKeys(TaskNames, Cardinality(TaskNames)) : Distinct(s)}}

\* trailing pass-through arguments of the command line
Argvs == {<<>>, << <<"a", "$">> >>}

ExitCodes == {-1} \cup 0..MaxExit

\* --------------------------------------------------------- script templating

RECURSIVE Replace(_, _, _)
\* str::replace for a one-character pattern
Replace(s, from, to) ==
  IF s = <<>> THEN <<>>
  ELSE (IF Head(s) = from THEN to ELSE <<Head(s)>>) \o Replace(Tail(s), from, to)

RECURSIVE Join(_, _)
Join(parts, sep) ==
  IF parts = <<>> THEN <<>>
  ELSE IF Len(parts) = 1 THEN parts[1]
  ELSE parts[1] \o sep \o Join(Tail(parts), sep)

IsWhitespace(c) == c \in {" ", "\t", "\n"}

RECURSIVE TrimStart(_)
TrimStart(s) ==
  IF s # <<>> /\ IsWhitespace(Head(s)) THEN TrimStart(Tail(s)) ELSE s

RECURSIVE TrimEnd(_)
TrimEnd(s) ==
  IF s # <<>> /\ IsWhitespace(s[Len(s)])
    THEN TrimEnd(SubSeq(s, 1, Len(s) - 1))
    ELSE s

Trim(s) == TrimEnd(TrimStart(s))

\* one additional argument, escaped and surrounded by double quotes
QuoteArg(a) ==
  <<"\"">> \o Replace(Replace(a, "\"", <<"\\", "\"">>), "$", <<"\\", "$">>)
           \o <<"\"">>

get_script_with_args(script, args) ==
  LET additional_args == Join([i \in 1..Len(args) |-> QuoteArg(args[i])], <<" ">>)
  IN Trim(script \o <<" ">> \o additional_args)

\* ------------------------------------------------------- environment builder

cfg_windows == FALSE

PathSeparator == IF cfg_windows THEN ";" ELSE ":"

\* a mutant of prepend_to_path: an empty PATH is kept behind a separator
prepend_to_path_always_separator(env_vars, value) ==
  IF ContainsKey(env_vars, "PATH")
    THEN [env_vars EXCEPT !["PATH"] = value \o PathSeparator \o @]
    ELSE Insert(env_vars, "PATH", value)

prepend_to_path(env_vars, value) ==
  IF ContainsKey(env_vars, "PATH")
    THEN IF env_vars["PATH"] = ""
           THEN [env_vars EXCEPT !["PATH"] = value]
           ELSE [env_vars EXCEPT !["PATH"] = value \o PathSeparator \o @]
    ELSE Insert(env_vars, "PATH", value)

\* proc is the process: its environment and its current directory (if readable)
collect_env_vars(proc) ==
  IF ~ContainsKey(proc.env, "INIT_CWD") /\ IsSome(proc.cwd)
    THEN Insert(proc.env, "INIT_CWD", Unwrap(proc.cwd))
    ELSE proc.env

collect_env_vars_with_node_modules_dir(proc, node_modules_dir_path) ==
  prepend_to_path(collect_env_vars(proc), node_modules_dir_path \o "/.bin")

\* ----------------------------------------------------------- task listing

TasksConfigLines(tasks_config) ==
  [i \in 1..Len(tasks_config) |->
     [key |-> tasks_config[i].key, is_deno |-> TRUE,
      value |-> tasks_config[i].value]]

\* a mutant of FilterNotIn: every package.json script is listed
FilterNotInKeepAll(scripts, tasks_config) ==
  [i \in 1..Len(scripts) |->
     [key |-> scripts[i].key, is_deno |-> FALSE, value |-> scripts[i].value]]

RECURSIVE FilterNotIn(_, _)
\* the package.json scripts whose key is not a configuration task
FilterNotIn(scripts, tasks_config) ==
  IF scripts = <<>> THEN <<>>
  ELSE (IF IndexContainsKey(tasks_config, Head(scripts).key)
          THEN <<>>
          ELSE <<[key |-> Head(scripts).key, is_deno |-> FALSE,
                  value |-> Head(scripts).value]>>)
       \o FilterNotIn(Tail(scripts), tasks_config)

\* the lines print_available_tasks writes to stderr
print_available_tasks(tasks_config, package_json_scripts) ==
  LET listed == TasksConfigLines(tasks_config)
                  \o FilterNotIn(package_json_scripts, tasks_config)
      had_task == listed # <<>>
  IN <<[line |-> "Available tasks:"]>>
     \o listed
     \o (IF ~had_task
           THEN <<[line |-> "No tasks found in configuration file"]>>
           ELSE <<>>)

\* -------------------------------------------------------- command resolver

\* top-level packages the resolver may hold
Pkgs == {[name |-> "tool", version |-> "1.0.0"],
         [name |-> "other", version |-> "2.0.0"]}

\* what a package's folder holds: the binary names its package.json exposes,
\* or a failure of the folder lookup / of the binary discovery
BinLists == {<<"tool">>, <<"npx", "cli">>}

FsEntries ==
  {[err |-> "none", bins |-> b] : b \in BinLists}
    \cup {[err |-> "folder", bins |-> <<>>], [err |-> "bins", bins |-> <<>>]}

PackageNvString(nv) == nv.name \o "@" \o nv.version

NpxCommand == [kind |-> "NpxCommand"]

NpmPackageBinCommand(name, npm_package) ==
  [kind |-> "NpmPackageBinCommand", name |-> name, npm_package |-> npm_package]

RECURSIVE InsertBinsKeepFirst(_, _, _)
\* a mutant of InsertBins: an existing registration is kept
InsertBinsKeepFirst(result, bin_commands, nv) ==
  IF bin_commands = <<>> THEN result
  ELSE InsertBinsKeepFirst(
         IF ContainsKey(result, Head(bin_commands)) THEN result
         ELSE Insert(result, Head(bin_commands),
                     [kind |-> "NpmPackageBinCommand",
                      name |-> Head(bin_commands), npm_package |-> nv]),
         Tail(bin_commands), nv)

RECURSIVE InsertBins(_, _, _)
\* the inner loop of resolve_npm_commands: one insert per binary name
InsertBins(result, bin_commands, nv) ==
  IF bin_commands = <<>> THEN result
  ELSE InsertBins(
         Insert(result, Head(bin_commands),
                NpmPackageBinCommand(Head(bin_commands), nv)),
         Tail(bin_commands), nv)

RECURSIVE ResolvePackages(_, _, _)
\* the outer loop of resolve_npm_commands, with its two `?` exits
ResolvePackages(result, ids, fs) ==
  IF ids = <<>> THEN [ok |-> TRUE, value |-> result]
  ELSE LET id == Head(ids) IN
       IF fs[id].err = "folder"
         THEN [ok |-> FALSE, value |-> "resolve_pkg_folder_from_pkg_id"]
       ELSE IF fs[id].err = "bins"
         THEN [ok |-> FALSE, value |-> "resolve_binary_commands"]
       ELSE ResolvePackages(InsertBins(result, fs[id].bins, id), Tail(ids), fs)

NpxFallback(result) ==
  IF ~ContainsKey(result, "npx") THEN Insert(result, "npx", NpxCommand)
  ELSE result

resolve_npm_commands(snapshot, fs) ==
  LET r == ResolvePackages(EmptyMap, snapshot, fs)
  IN IF r.ok THEN [ok |-> TRUE, value |-> NpxFallback(r.value)] ELSE r

\* the shell's own commands, which custom commands are laid over
Builtins == {"echo"}

resolve_command(custom_commands, name) ==
  IF ContainsKey(custom_commands, name) THEN Some(custom_commands[name])
  ELSE IF name \in Builtins THEN Some([kind |-> "Builtin", name |-> name])
  ELSE None

NpmPackageBinCommandExecute(self, args) ==
  [exit |-> None, stderr |-> <<>>, hops |-> 0,
   spawned |-> Some([program |-> "deno",
     args |-> <<"run", "-A",
                IF self.npm_package.name = self.name
                  THEN "npm:" \o PackageNvString(self.npm_package)
                  ELSE "npm:" \o PackageNvString(self.npm_package)
                         \o "/" \o self.name>>
              \o args])]

\* what any other command of the shell does with its arguments
OtherCommandExecute(command, args) ==
  [exit |-> None, stderr |-> <<>>, hops |-> 0,
   spawned |-> Some([program |-> command.name, args |-> args])]

RECURSIVE ExecuteForwardsName(_, _, _)
\* a mutant of Execute: npx hands a package or shell command all of its
\* arguments, the command name included
ExecuteForwardsName(command, args, custom_commands) ==
  CASE command.kind = "NpmPackageBinCommand" ->
         NpmPackageBinCommandExecute(command, args)
    [] command.kind = "NpxCommand" ->
         IF args # <<>>
           THEN LET first_arg == args[1]
                    found == resolve_command(custom_commands, first_arg)
                IN IF IsSome(found)
                     THEN LET r == ExecuteForwardsName(
                                     Unwrap(found),
                                     IF Unwrap(found).kind = "NpxCommand"
                                       THEN Tail(args) ELSE args,
                                     custom_commands)
                          IN [r EXCEPT !.hops = @ + 1]
                     ELSE [exit |-> Some(1), hops |-> 0,
                           stderr |-> <<"npx: could not resolve command '"
                                          \o first_arg \o "'">>,
                           spawned |-> None]
           ELSE [exit |-> Some(1), stderr |-> <<"npx: missing command">>,
                 hops |-> 0, spawned |-> None]
    [] OTHER -> OtherCommandExecute(command, args)

RECURSIVE ExecuteMissingCommandOk(_, _, _)
\* a mutant of Execute: npx without a command to run reports success
ExecuteMissingCommandOk(command, args, custom_commands) ==
  CASE command.kind = "NpmPackageBinCommand" ->
         NpmPackageBinCommandExecute(command, args)
    [] command.kind = "NpxCommand" ->
         IF args # <<>>
           THEN LET first_arg == args[1]
                    found == resolve_command(custom_commands, first_arg)
                IN IF IsSome(found)
                     THEN LET r == ExecuteMissingCommandOk(
                                     Unwrap(found), Tail(args), custom_commands)
                          IN [r EXCEPT !.hops = @ + 1]
                     ELSE [exit |-> Some(1), hops |-> 0,
                           stderr |-> <<"npx: could not resolve command '"
                                          \o first_arg \o "'">>,
                           spawned |-> None]
           ELSE [exit |-> Some(0), stderr |-> <<>>, hops |-> 0,
                 spawned |-> None]
    [] OTHER -> OtherCommandExecute(command, args)

RECURSIVE Execute(_, _, _)
\* ShellCommand::execute of a handler: what it spawns, or its own exit code
\* and diagnostic; hops counts the commands npx handed the call on to
Execute(command, args, custom_commands) ==
  CASE command.kind = "NpmPackageBinCommand" ->
         NpmPackageBinCommandExecute(command, args)
    [] command.kind = "NpxCommand" ->
         IF args # <<>>
           THEN LET first_arg == args[1]
                    found == resolve_command(custom_commands, first_arg)
                IN IF IsSome(found)
                     THEN LET r == Execute(Unwrap(found), Tail(args),
                                           custom_commands)
                          IN [r EXCEPT !.hops = @ + 1]
                     ELSE [exit |-> Some(1), hops |-> 0,
                           stderr |-> <<"npx: could not resolve command '"
                                          \o first_arg \o "'">>,
                           spawned |-> None]
           ELSE [exit |-> Some(1), stderr |-> <<"npx: missing command">>,
                 hops |-> 0, spawned |-> None]
    [] OTHER -> OtherCommandExecute(command, args)

\* -------------------------------------------------------------- the driver

Ok(v) == [ok |-> TRUE, value |-> v]
Err(e) == [ok |-> FALSE, value |-> e]

\* the resolvers: managed or not, with or without a node_modules directory
Resolvers ==
  {[managed |-> TRUE, root_node_modules_path |-> Some("/p/node_modules")],
   [managed |-> TRUE, root_node_modules_path |-> None],
   [managed |-> FALSE, root_node_modules_path |-> Some("/p/node_modules")]}

\* the process: environment variables and current directory
Procs ==
  {[env |-> [k \in {"PATH"} |-> "/usr/bin"], cwd |-> Some("/w")],
   [env |-> [k \in {"INIT_CWD", "PATH"} |-> IF k = "PATH" THEN "" ELSE "/i"],
    cwd |-> Some("/w")],
   [env |-> EmptyMap, cwd |-> None]}

\* --cwd of the command line
CwdFlags == {None, Some("/override")}

ToolPkg == [name |-> "tool", version |-> "1.0.0"]
OtherPkg == [name |-> "other", version |-> "2.0.0"]

\* the order in which the snapshot yields its top-level packages
Snapshots == {s \in OrderedKeys(Pkgs, Cardinality(Pkgs)) : Distinct(s)}

FsLayouts == [Pkgs -> FsEntries]

Intact(bins) == [err |-> "none", bins |-> bins]

\* what a script may leave on disk: it can rewrite the binaries a package
\* exposes, or remove the package's folder
DiskAfter(disk) ==
  {disk} \cup {[disk EXCEPT ![OtherPkg] = Intact(b)] : b \in BinLists}
         \cup {[disk EXCEPT ![OtherPkg] = [err |-> "folder", bins |-> <<>>]]}

\* arguments a script may pass to a command of the table
CommandArgs ==
  {<<>>, <<"x">>, <<"tool", "x">>, <<"npx", "cli">>, <<"nope">>,
   <<"echo", "hi", "x">>, <<"npx", "npx", "tool", "x">>}

VARIABLES
  tasks_config,          \* TaskMap: IndexMap of the configuration file's tasks
  package_json_scripts,  \* ManifestScriptMap: IndexMap of package.json scripts
  task_flags,            \* [task: Option<name>, cwd: Option<path>]
  argv,                  \* cli_options.argv(): the pass-through arguments
  npm_resolver,          \* the active resolver
  proc,                  \* the process environment and current directory
  fs,                    \* what each package folder holds on disk
  snapshot,              \* the resolver's top-level packages, in iteration order
  pc,                    \* where execute_script is
  cwd,                   \* the working directory of the run, once resolved
  task_names,            \* the loop's vector of step names
  idx,                   \* the loop's position in task_names
  running,               \* Option: the invocation whose future is being awaited
  last_command,          \* Option: the last command the running script invoked
  ran,                   \* the steps whose execution has completed, in order
  calls,                 \* the calls made to the collaborators, in order
  stderr,                \* the lines written to the error stream
  result,                \* Option<Result<i32, AnyError>>: what was returned
  path_start,            \* prepend_to_path: the map before the first call
  path_env,              \* prepend_to_path: env_vars, the map it mutates
  prepended,             \* prepend_to_path: the values of the calls so far
  arg_script,            \* get_script_with_args: script
  arg_argv,              \* get_script_with_args: options.argv()
  quoted_args,           \* get_script_with_args: the quoted arguments (line 153)
  script_with_args       \* get_script_with_args: Option of the returned String

vars == <<tasks_config, package_json_scripts, task_flags, argv, npm_resolver,
          proc, fs, snapshot, pc, cwd, task_names, idx, running, last_command,
          ran, calls, stderr, result, path_start, path_env, prepended,
          arg_script, arg_argv, quoted_args, script_with_args>>

\* the state of the two functions exercised on their own
units == <<path_start, path_env, prepended, arg_script, arg_argv, quoted_args,
           script_with_args>>

\* the state of execute_script
driver == <<tasks_config, package_json_scripts, task_flags, argv, npm_resolver,
            proc, fs, snapshot, pc, cwd, task_names, idx, running,
            last_command, ran, calls, stderr, result>>

inputs == <<tasks_config, package_json_scripts, task_flags, argv, npm_resolver,
            proc>>

\* the state every run starts in, whatever its inputs
Fresh ==
  /\ pc = "start"
  /\ cwd = None
  /\ task_names = <<>>
  /\ idx = 1
  /\ running = None
  /\ last_command = None
  /\ ran = <<>>
  /\ calls = <<>>
  /\ stderr = <<>>
  /\ result = None

\* prepend_to_path has not been called
NoPath ==
  /\ path_start = EmptyMap
  /\ path_env = EmptyMap
  /\ prepended = <<>>

\* get_script_with_args has not been called
NoArgs ==
  /\ arg_script = <<>>
  /\ arg_argv = <<>>
  /\ quoted_args = <<>>
  /\ script_with_args = None

Entries(text(_), keys) ==
  [i \in 1..Len(keys) |-> [key |-> keys[i], value |-> text(keys[i])]]

\* every pair of task maps, in an installed project
Init ==
  /\ tasks_config \in TaskMaps
  /\ package_json_scripts \in ManifestScriptMaps
  /\ task_flags \in [task : {None, Some("build")}, cwd : CwdFlags]
  /\ argv \in Argvs
  /\ npm_resolver \in {r \in Resolvers : IsSome(r.root_node_modules_path)}
  /\ proc = [env |-> [k \in {"PATH"} |-> "/usr/bin"], cwd |-> Some("/w")]
  /\ fs = [p \in Pkgs |-> Intact(<<"tool">>)]
  /\ snapshot = <<ToolPkg, OtherPkg>>
  /\ Fresh
  /\ NoPath /\ NoArgs

\* every resolver, process, disk layout and snapshot, over a few task maps
InitNpm ==
  /\ tasks_config \in {<<>>, Entries(ConfigText, <<"build">>)}
  /\ package_json_scripts \in
       {<<>>, Entries(ManifestText, <<"build">>),
        Entries(ManifestText, <<"prebuild", "build", "postbuild">>)}
  /\ task_flags \in [task : {None, Some("build")}, cwd : CwdFlags]
  /\ argv = <<>>
  /\ npm_resolver \in Resolvers
  /\ proc \in Procs
  /\ fs \in {l \in FsLayouts : l[ToolPkg] = Intact(<<"tool">>)}
  /\ snapshot \in Snapshots
  /\ Fresh
  /\ NoPath /\ NoArgs

\* every disk layout and snapshot, for one-step runs
InitCommands ==
  /\ tasks_config \in {<<>>, Entries(ConfigText, <<"build">>)}
  /\ package_json_scripts \in {<<>>, Entries(ManifestText, <<"build">>)}
  /\ task_flags \in [task : {None, Some("build")}, cwd : {None}]
  /\ argv = <<>>
  /\ npm_resolver \in {r \in Resolvers : IsSome(r.root_node_modules_path)}
  /\ proc = [env |-> [k \in {"PATH"} |-> "/usr/bin"], cwd |-> Some("/w")]
  /\ fs \in FsLayouts
  /\ snapshot \in Snapshots
  /\ Fresh
  /\ NoPath /\ NoArgs

\* no task is run: execute_script is not entered
NoTask ==
  /\ tasks_config = <<>>
  /\ package_json_scripts = <<>>
  /\ task_flags = [task |-> None, cwd |-> None]
  /\ argv = <<>>
  /\ npm_resolver = [managed |-> FALSE,
                     root_node_modules_path |-> Some("/p/node_modules")]
  /\ proc = [env |-> EmptyMap, cwd |-> None]
  /\ fs = [p \in Pkgs |-> Intact(<<"tool">>)]
  /\ snapshot = <<>>
  /\ Fresh

\* the maps prepend_to_path is first called on: PATH absent, empty or set,
\* alone or beside another variable
PathMaps ==
  {EmptyMap, [k \in {"PATH"} |-> ""], [k \in {"PATH"} |-> "/usr/bin"],
   [k \in {"HOME"} |-> "/h"],
   [k \in {"HOME", "PATH"} |-> IF k = "PATH" THEN "" ELSE "/h"],
   [k \in {"HOME", "PATH"} |-> IF k = "PATH" THEN "/usr/bin" ELSE "/h"]}

\* the values prepended
PathValues == {"/example", "/example2", ""}

InitPath ==
  /\ NoTask /\ NoArgs
  /\ path_start \in PathMaps
  /\ path_env = path_start
  /\ prepended = <<>>

\* the characters scripts and arguments are made of
Alphabet == {"a", "\"", "$", "\\", " "}

RECURSIVE Strings(_)
\* the strings over Alphabet of length at most n
Strings(n) ==
  IF n = 0 THEN {<<>>}
  ELSE Strings(n - 1)
         \cup {Append(s, c) : s \in {t \in Strings(n - 1) : Len(t) = n - 1},
                              c \in Alphabet}

ExtraArgs == Strings(MaxArgLen)

\* argv: none, one argument, or two
ArgvLists ==
  {<<>>} \cup {<<a>> : a \in ExtraArgs}
         \cup {<<a, b>> : a \in ExtraArgs, b \in {<<"a">>, <<"$", "\"">>}}

Scripts == {<<>>, <<"a">>, <<" ", "a", " ", "a", " ">>, <<" ">>}

InitArgs ==
  /\ NoTask /\ NoPath
  /\ arg_script \in Scripts
  /\ arg_argv \in ArgvLists
  /\ quoted_args = <<>>
  /\ script_with_args = None

Return(r) ==
  /\ result' = Some(r)
  /\ pc' = "done"

task_name == Unwrap(task_flags.task)

\* a mutant of SelectSource: package.json is looked up first
SelectSourceManifestFirst(config, scripts, task) ==
  IF task = None THEN "help"
  ELSE IF IndexContainsKey(scripts, Unwrap(task)) THEN "package.json"
  ELSE IF IndexContainsKey(config, Unwrap(task)) THEN "deno.json"
  ELSE "not_found"

\* a mutant of SelectSource: a hook of the name is enough to select package.json
SelectSourceByHook(config, scripts, task) ==
  IF task = None THEN "help"
  ELSE IF IndexContainsKey(config, Unwrap(task)) THEN "deno.json"
  ELSE IF \/ IndexContainsKey(scripts, Unwrap(task))
          \/ IndexContainsKey(scripts, "pre" \o Unwrap(task))
    THEN "package.json"
  ELSE "not_found"

\* lines 40, 48, 69, 139: the branch execute_script takes
SelectSource(config, scripts, task) ==
  IF task = None THEN "help"
  ELSE IF IndexContainsKey(config, Unwrap(task)) THEN "deno.json"
  ELSE IF IndexContainsKey(scripts, Unwrap(task)) THEN "package.json"
  ELSE "not_found"

Source == SelectSource(tasks_config, package_json_scripts, task_flags.task)

\* a mutant of HookNames: the post hook comes before the task
HookNamesPostFirst(name) == <<"pre" \o name, "post" \o name, name>>

\* lines 107-111: the step names of a package.json task
HookNames(name) == <<"pre" \o name, name, "post" \o name>>

\* a mutant of ParseContext: the error names the task asked for
ParseContextOfTask(name) == "Error parsing script '" \o task_name \o "'."

\* lines 62, 117: the context a parse error is wrapped in
ParseContext(name) == "Error parsing script '" \o name \o "'."

\* a mutant of StepScript: only the task itself gets the arguments
StepScriptMainOnly(name) ==
  get_script_with_args(Unwrap(IndexGet(package_json_scripts, name)),
                       IF name = task_name THEN argv ELSE <<>>)

\* line 114: the script of a package.json step
StepScript(name) ==
  get_script_with_args(Unwrap(IndexGet(package_json_scripts, name)), argv)

\* lines 31-33: the factory or the configuration cannot be loaded
SetupError ==
  /\ pc = "start"
  /\ Return(Err("setup"))
  /\ UNCHANGED <<inputs, units, fs, snapshot, cwd, task_names, idx, running,
                 last_command, ran, calls, stderr>>

\* lines 40-46: no task name
Help ==
  /\ pc = "start"
  /\ Source = "help"
  /\ stderr' = stderr \o print_available_tasks(tasks_config, package_json_scripts)
  /\ Return(Ok(1))
  /\ UNCHANGED <<inputs, units, fs, snapshot, cwd, task_names, idx, running,
                 last_command, ran, calls>>

\* a mutant of NotFound: the listing is printed before the message
NotFoundListingFirst ==
  /\ pc = "start"
  /\ Source = "not_found"
  /\ stderr' = stderr \o print_available_tasks(tasks_config, package_json_scripts)
                 \o <<[line |-> "Task not found: " \o task_name]>>
  /\ Return(Ok(1))
  /\ UNCHANGED <<inputs, units, fs, snapshot, cwd, task_names, idx, running,
                 last_command, ran, calls>>

\* lines 139-143: the name is in neither map
NotFound ==
  /\ pc = "start"
  /\ Source = "not_found"
  /\ stderr' = stderr \o <<[line |-> "Task not found: " \o task_name]>>
                 \o print_available_tasks(tasks_config, package_json_scripts)
  /\ Return(Ok(1))
  /\ UNCHANGED <<inputs, units, fs, snapshot, cwd, task_names, idx, running,
                 last_command, ran, calls>>

\* lines 48-67: a configuration task, up to the await of its execution
ConfigTask ==
  /\ pc = "start"
  /\ Source = "deno.json"
  /\ \E local_file, canonical, parsed \in BOOLEAN :
       LET script == get_script_with_args(
                       Unwrap(IndexGet(tasks_config, task_name)), argv)
           dir == IF IsSome(task_flags.cwd) THEN task_flags.cwd
                  ELSE Some("/config")
       IN IF ~local_file
            THEN /\ Return(Err("Only local configuration files are supported"))
                 /\ UNCHANGED <<cwd, running, calls>>
          ELSE IF IsSome(task_flags.cwd) /\ ~canonical
            THEN /\ Return(Err("canonicalize_path"))
                 /\ UNCHANGED <<cwd, running, calls>>
          ELSE IF ~parsed
            THEN /\ Return(Err(ParseContext(task_name)))
                 /\ cwd' = dir
                 /\ calls' = calls \o <<"parse">>
                 /\ UNCHANGED running
          ELSE /\ cwd' = dir
               /\ running' = Some([name |-> task_name, script |-> script,
                                   source |-> "deno.json",
                                   env_vars |-> collect_env_vars(proc),
                                   npx_commands |-> EmptyMap])
               /\ calls' = calls \o <<"parse", "collect_env_vars",
                                     "LocalSet::new", "execute">>
               /\ pc' = "config_run"
               /\ UNCHANGED result
  /\ UNCHANGED <<inputs, units, fs, snapshot, task_names, idx, last_command, ran,
                 stderr>>

\* lines 67-68: the configuration task's exit code is the result
ConfigDone ==
  /\ pc = "config_run"
  /\ \E exit_code \in ExitCodes, disk \in DiskAfter(fs) :
       /\ ran' = Append(ran, [step |-> Unwrap(running), exit_code |-> exit_code])
       /\ fs' = disk
       /\ Return(Ok(exit_code))
  /\ running' = None
  /\ last_command' = None
  /\ UNCHANGED <<inputs, units, snapshot, cwd, task_names, idx, calls, stderr>>

\* a mutant of ManifestSetup: the installation is not awaited before the steps
ManifestSetupSkipInstall ==
  /\ pc = "start"
  /\ Source = "package.json"
  /\ \E created \in BOOLEAN :
       IF ~created THEN Return(Err("npm_resolver"))
       ELSE pc' = "cwd" /\ UNCHANGED result
  /\ UNCHANGED <<inputs, units, fs, snapshot, cwd, task_names, idx, running,
                 last_command, ran, calls, stderr>>

\* lines 69-88: a package.json script; the resolvers are created (the
\* warnings of lines 74-85 are only logged and change nothing)
ManifestSetup ==
  /\ pc = "start"
  /\ Source = "package.json"
  /\ \E created \in BOOLEAN :
       IF ~created THEN Return(Err("npm_resolver"))
       ELSE /\ pc' = IF npm_resolver.managed THEN "install" ELSE "cwd"
            /\ UNCHANGED result
  /\ UNCHANGED <<inputs, units, fs, snapshot, cwd, task_names, idx, running,
                 last_command, ran, calls, stderr>>

\* line 89: ensure_top_level_package_json_install().await?
Install ==
  /\ pc = "install"
  /\ calls' = Append(calls, "ensure_top_level_package_json_install")
  /\ \E installed \in BOOLEAN :
       IF ~installed THEN Return(Err("ensure_top_level_package_json_install"))
       ELSE pc' = "pending" /\ UNCHANGED result
  /\ UNCHANGED <<inputs, units, fs, snapshot, cwd, task_names, idx, running,
                 last_command, ran, stderr>>

\* line 90: resolve_pending().await?
ResolvePending ==
  /\ pc = "pending"
  /\ calls' = Append(calls, "resolve_pending")
  /\ \E resolved \in BOOLEAN :
       IF ~resolved
         THEN Return(Err("resolve_pending"))
         ELSE pc' = "cwd" /\ UNCHANGED result
  /\ UNCHANGED <<inputs, units, fs, snapshot, cwd, task_names, idx, running,
                 last_command, ran, stderr>>

\* a mutant of ResolveCwd: the scripts of all three steps are parsed before
\* the first of them runs
ResolveCwdEagerParse ==
  /\ pc = "cwd"
  /\ \E canonical \in BOOLEAN, bad \in SUBSET Range(HookNames(task_name)) :
       IF IsSome(task_flags.cwd) /\ ~canonical
         THEN /\ Return(Err("canonicalize_path"))
              /\ UNCHANGED <<cwd, task_names, calls>>
       ELSE IF \E n \in bad : IndexContainsKey(package_json_scripts, n)
         THEN /\ Return(Err(ParseContext(
                     CHOOSE n \in bad :
                       IndexContainsKey(package_json_scripts, n))))
              /\ calls' = calls \o <<"parse">>
              /\ UNCHANGED <<cwd, task_names>>
         ELSE /\ cwd' = IF IsSome(task_flags.cwd) THEN task_flags.cwd
                        ELSE Some("/manifest")
              /\ task_names' = HookNames(task_name)
              /\ pc' = "loop"
              /\ UNCHANGED <<result, calls>>
  /\ UNCHANGED <<inputs, units, fs, snapshot, idx, running, last_command, ran,
                 stderr>>

\* lines 93-111: the working directory and the three step names
ResolveCwd ==
  /\ pc = "cwd"
  /\ \E canonical \in BOOLEAN :
       IF IsSome(task_flags.cwd) /\ ~canonical
         THEN /\ Return(Err("canonicalize_path"))
              /\ UNCHANGED <<cwd, task_names>>
         ELSE /\ cwd' = IF IsSome(task_flags.cwd) THEN task_flags.cwd
                        ELSE Some("/manifest")
              /\ task_names' = HookNames(task_name)
              /\ pc' = "loop"
              /\ UNCHANGED result
  /\ UNCHANGED <<inputs, units, fs, snapshot, idx, running, last_command, ran, calls,
                 stderr>>

\* lines 118-123: the command table of a step
StepCommands ==
  IF npm_resolver.managed THEN resolve_npm_commands(snapshot, fs)
  ELSE Ok(EmptyMap)

\* lines 124-127: the environment of a step
StepEnvVars ==
  IF IsSome(npm_resolver.root_node_modules_path)
    THEN collect_env_vars_with_node_modules_dir(
           proc, Unwrap(npm_resolver.root_node_modules_path))
    ELSE collect_env_vars(proc)

\* lines 112-113: an iteration whose name package.json does not have
SkipStep ==
  /\ pc = "loop"
  /\ idx <= Len(task_names)
  /\ ~IndexContainsKey(package_json_scripts, task_names[idx])
  /\ idx' = idx + 1
  /\ UNCHANGED <<inputs, units, fs, snapshot, pc, cwd, task_names, running,
                 last_command, ran, calls, stderr, result>>

\* a mutant of BeginStep: the step's future is spawned and not awaited
BeginStepNoAwait ==
  /\ pc = "loop"
  /\ idx <= Len(task_names)
  /\ IndexContainsKey(package_json_scripts, task_names[idx])
  /\ StepCommands.ok
  /\ running' = Some([name |-> task_names[idx],
                      script |-> StepScript(task_names[idx]),
                      source |-> "package.json",
                      env_vars |-> StepEnvVars,
                      npx_commands |-> StepCommands.value])
  /\ calls' = calls \o <<"parse", "collect_env_vars", "LocalSet::new",
                          "execute">>
  /\ idx' = idx + 1
  /\ UNCHANGED <<inputs, units, fs, snapshot, pc, cwd, task_names, last_command, ran,
                 stderr, result>>

\* lines 113-130: an iteration up to the await of the step's execution
BeginStep ==
  /\ pc = "loop"
  /\ idx <= Len(task_names)
  /\ IndexContainsKey(package_json_scripts, task_names[idx])
  /\ \E parsed \in BOOLEAN :
       LET name == task_names[idx]
           script == StepScript(name)
           npx_commands == StepCommands
       IN IF ~parsed
            THEN /\ Return(Err(ParseContext(name)))
                 /\ calls' = calls \o <<"parse">>
                 /\ UNCHANGED running
          ELSE IF ~npx_commands.ok
            THEN /\ Return(Err(npx_commands.value))
                 /\ calls' = calls \o <<"parse", "resolve_npm_commands">>
                 /\ UNCHANGED running
          ELSE /\ running' = Some([name |-> name, script |-> script,
                                   source |-> "package.json",
                                   env_vars |-> StepEnvVars,
                                   npx_commands |-> npx_commands.value])
               /\ calls' = calls
                    \o <<"parse">>
                    \o (IF npm_resolver.managed
                          THEN <<"resolve_npm_commands">> ELSE <<>>)
                    \o <<"collect_env_vars", "LocalSet::new", "execute">>
               /\ pc' = "step_run"
               /\ UNCHANGED result
  /\ UNCHANGED <<inputs, units, fs, snapshot, cwd, task_names, idx, last_command, ran,
                 stderr>>

\* line 132: the test that ends the sequence
StopsSequence(exit_code) == exit_code > 0

\* lines 131-135: the step's future completes; its exit code is examined
EndStep ==
  /\ pc = "step_run"
  /\ \E exit_code \in ExitCodes, disk \in DiskAfter(fs) :
       /\ ran' = Append(ran, [step |-> Unwrap(running), exit_code |-> exit_code])
       /\ fs' = disk
       /\ IF StopsSequence(exit_code)
            THEN Return(Ok(exit_code)) /\ UNCHANGED idx
            ELSE pc' = "loop" /\ idx' = idx + 1 /\ UNCHANGED result
  /\ running' = None
  /\ last_command' = None
  /\ UNCHANGED <<inputs, units, snapshot, cwd, task_names, calls, stderr>>

\* line 138: the loop is over
LoopEnd ==
  /\ pc = "loop"
  /\ idx > Len(task_names)
  /\ Return(Ok(0))
  /\ UNCHANGED <<inputs, units, fs, snapshot, cwd, task_names, idx, running,
                 last_command, ran, calls, stderr>>

\* lines 182-196: one call of prepend_to_path
PrependToPath ==
  /\ Len(prepended) < MaxPrepends
  /\ \E value \in PathValues :
       /\ path_env' = prepend_to_path(path_env, value)
       /\ prepended' = Append(prepended, value)
  /\ UNCHANGED <<driver, path_start, arg_script, arg_argv, quoted_args,
                 script_with_args>>

\* lines 146-157: one call of get_script_with_args
GetScriptWithArgs ==
  /\ script_with_args = None
  /\ quoted_args' = [i \in 1..Len(arg_argv) |-> QuoteArg(arg_argv[i])]
  /\ script_with_args' = Some(get_script_with_args(arg_script, arg_argv))
  /\ UNCHANGED <<driver, path_start, path_env, prepended, arg_script,
                 arg_argv>>

\* the running script invokes a command of its table (lines 243-295)
InvokeCommand ==
  /\ pc \in {"step_run", "config_run"}
  /\ \E name \in DOMAIN Unwrap(running).npx_commands, args \in CommandArgs :
       LET commands == Unwrap(running).npx_commands
       IN last_command' = Some([name |-> name, args |-> args,
                                outcome |-> Execute(commands[name], args, commands)])
  /\ UNCHANGED <<inputs, units, fs, snapshot, pc, cwd, task_names, idx, running, ran,
                 calls, stderr, result>>

Next ==
  \/ SetupError
  \/ Help
  \/ NotFound
  \/ ConfigTask
  \/ ConfigDone
  \/ ManifestSetup
  \/ Install
  \/ ResolvePending
  \/ ResolveCwd
  \/ SkipStep
  \/ BeginStep
  \/ EndStep
  \/ LoopEnd

Spec == Init /\ [][Next]_vars

SpecNpm == InitNpm /\ [][Next]_vars

\* the driver together with the commands its running scripts invoke
NextCommands ==
  \/ Next
  \/ InvokeCommand

SpecCommands == InitCommands /\ [][NextCommands]_vars

\* prepend_to_path on its own
NextPath == PrependToPath

SpecPath == InitPath /\ [][NextPath]_vars

\* get_script_with_args on its own
NextArgs == GetScriptWithArgs

SpecArgs == InitArgs /\ [][NextArgs]_vars

\* ------------------------------------------------------------- observables

\* the steps whose execution has begun, in order
Started ==
  [i \in 1..Len(ran) |-> ran[i].step]
    \o (IF IsSome(running) THEN <<Unwrap(running)>> ELSE <<>>)

StartedNames == [i \in 1..Len(Started) |-> Started[i].name]

Called(c) == \E i \in 1..Len(calls) : calls[i] = c

CountCalls(c) == Cardinality({i \in 1..Len(calls) : calls[i] = c})

IsPrefix(a, b) == Len(a) <= Len(b) /\ SubSeq(b, 1, Len(a)) = a

Named == IsSome(task_flags.task)

InConfig == Named /\ IndexContainsKey(tasks_config, task_name)

InManifest == Named /\ IndexContainsKey(package_json_scripts, task_name)

Done == pc = "done"

ReturnedOk(code) ==
  Done /\ Unwrap(result).ok /\ Unwrap(result).value = code

ReturnedErr(e) ==
  Done /\ ~Unwrap(result).ok /\ Unwrap(result).value = e

\* execute_script got past the loading of the configuration (line 38)
Loaded == ~ReturnedErr("setup")

\* ------------------------------------------------------------------ claims

\* C1: a task name that is a key of TaskMap resolves to the configuration
\* source, whether or not package.json has it too: every script that runs is
\* the TaskMap script of that name with the arguments appended, and the
\* package.json branch is never entered (no installation, no pending
\* resolution, no command table, no package.json script).
C1_ConfigPrecedence ==
  InConfig =>
    /\ pc \in {"start", "config_run", "done"}
    /\ \A i \in 1..Len(Started) :
         /\ Started[i].name = task_name
         /\ Started[i].script = get_script_with_args(ConfigText(task_name), argv)
         /\ Started[i].script # get_script_with_args(ManifestText(task_name), argv)
         /\ Started[i].npx_commands = EmptyMap
    /\ ~Called("ensure_top_level_package_json_install")
    /\ ~Called("resolve_pending")
    /\ ~Called("resolve_npm_commands")
    /\ task_names = <<>>

C1_Witness ==
  /\ InConfig /\ InManifest
  /\ npm_resolver.managed
  /\ ReturnedOk(0)
  /\ Len(ran) = 1

\* C2 (as claimed): in a package.json run, once a step has returned a
\* non-zero exit code, whatever its value, no later step is executed.
C2_StopsAtFirstNonZero ==
  \A i \in 1..Len(ran) :
    ran[i].exit_code # 0 => (i = Len(Started))

\* C3 (as claimed): the returned exit code is the first non-zero exit code of
\* an executed step, 0 exactly when every executed step returned 0, and 1 on
\* the help and not-found paths.
C3_TerminalExitCode ==
  (Done /\ Unwrap(result).ok) =>
    LET code == Unwrap(result).value
        failed == {i \in 1..Len(ran) : ran[i].exit_code # 0}
    IN /\ (~InConfig /\ ~InManifest) => code = 1
       /\ (InConfig \/ InManifest) =>
            /\ (failed = {}) <=> (code = 0)
            /\ failed # {} =>
                 code = ran[CHOOSE i \in failed : \A j \in failed : i <= j].exit_code

\* the step names package.json has, in the fixed order
ExpectedSteps ==
  SelectSeq(<<"pre" \o task_name, task_name, "post" \o task_name>>,
            LAMBDA n : IndexContainsKey(package_json_scripts, n))

\* C4: in a package.json run the steps executed are a prefix of pre<t>, <t>,
\* post<t> restricted to the keys of package.json, each at most once, in
\* that order; the prefix is proper only after a failure (an error, or a
\* step whose exit code stopped the run); with neither hook present a run
\* that returns an exit code has executed exactly the step <t>.
C4_HookOrder ==
  (InManifest /\ ~InConfig) =>
    /\ IsPrefix(StartedNames, ExpectedSteps)
    /\ Distinct(StartedNames)
    /\ (Done /\ Len(ran) < Len(ExpectedSteps)) =>
         \/ ~Unwrap(result).ok
         \/ /\ ran # <<>>
            /\ ran[Len(ran)].exit_code > 0
            /\ ReturnedOk(ran[Len(ran)].exit_code)
    /\ (Done /\ Unwrap(result).ok /\ ExpectedSteps = <<task_name>>) =>
         StartedNames = <<task_name>>

C4_Witness ==
  /\ InManifest /\ ~InConfig
  /\ Done
  /\ StartedNames = <<"prebuild", "build", "postbuild">>

\* C5: a configuration task is one step with no pre/post expansion, whatever
\* hook names the two maps hold; steps other than <t> run only when <t> is a
\* key of package.json and not of TaskMap; a name in neither map runs
\* nothing, even when package.json has pre<t> or post<t>.
C5_NoHooksOutsideManifest ==
  /\ InConfig =>
       /\ Len(Started) <= 1
       /\ \A i \in 1..Len(Started) : Started[i].name = task_name
       /\ (Done /\ Unwrap(result).ok) => Len(ran) = 1
  /\ (\E i \in 1..Len(Started) : Started[i].name # task_name) =>
       (InManifest /\ ~InConfig)
  /\ (Named /\ ~InConfig /\ ~InManifest) =>
       /\ Started = <<>>
       /\ (Done /\ Loaded) =>
            /\ ReturnedOk(1)
            /\ stderr[1] = [line |-> "Task not found: " \o task_name]

C5_Witness ==
  /\ InConfig
  /\ IndexContainsKey(tasks_config, "pre" \o task_name)
  /\ IndexContainsKey(package_json_scripts, "post" \o task_name)
  /\ Done /\ Unwrap(result).ok
  /\ StartedNames = <<task_name>>

IsNotFoundLine(l) ==
  \E n \in TaskNames : l = [line |-> "Task not found: " \o n]

\* C6: with the task name omitted, or a key of neither map, the listing is
\* printed and Ok(1) is returned; nothing is executed, installed or built;
\* "Task not found: <name>" precedes the listing when a name was given and
\* is absent when none was.
C6_ListingPaths ==
  (Done /\ Loaded /\ ~InConfig /\ ~InManifest) =>
    /\ ReturnedOk(1)
    /\ Started = <<>>
    /\ calls = <<>>
    /\ IF Named
         THEN /\ stderr[1] = [line |-> "Task not found: " \o task_name]
              /\ stderr[2] = [line |-> "Available tasks:"]
              /\ \A i \in 2..Len(stderr) : ~IsNotFoundLine(stderr[i])
         ELSE /\ stderr[1] = [line |-> "Available tasks:"]
              /\ \A i \in 1..Len(stderr) : ~IsNotFoundLine(stderr[i])
    /\ \A e \in Range(tasks_config) \cup Range(package_json_scripts) :
         \E i \in 1..Len(stderr) : "key" \in DOMAIN stderr[i] /\ stderr[i].key = e.key

C6_Witness ==
  /\ Named /\ ~InConfig /\ ~InManifest
  /\ IndexContainsKey(package_json_scripts, "pre" \o task_name)
  /\ tasks_config # <<>>
  /\ Done /\ Loaded

\* some top-level package of the snapshot exposes the binary name on disk
Exposes(p, bin) == fs[p].err = "none" /\ bin \in Range(fs[p].bins)

\* C7 (as claimed): the command table of every step of a package.json run
\* has an entry for "npx", with a managed resolver or not; it is the default
\* NpxCommand exactly when no top-level package exposes a binary "npx".
C7_AlwaysNpx ==
  /\ \A i \in 1..Len(Started) :
       Started[i].source = "package.json" =>
         ContainsKey(Started[i].npx_commands, "npx")
  /\ (IsSome(running) /\ Unwrap(running).source = "package.json") =>
       /\ ContainsKey(Unwrap(running).npx_commands, "npx")
       /\ (Unwrap(running).npx_commands["npx"] = NpxCommand)
            <=> ~\E p \in Range(snapshot) : Exposes(p, "npx")

\* C8 (as claimed): in a package.json run the command table and the
\* environment are built once, and every step is given the same ones.
C8_BuiltOnce ==
  /\ CountCalls("resolve_npm_commands") <= 1
  /\ CountCalls("collect_env_vars") <= 1
  /\ \A i, j \in 1..Len(Started) :
       /\ Started[i].npx_commands = Started[j].npx_commands
       /\ Started[i].env_vars = Started[j].env_vars

\* C9: in a package.json run with a managed resolver, the installation and
\* then the pending resolution are each called once and complete before any
\* script is parsed, any table built or any step executed; when either
\* fails the run returns that error with no step executed, and a failed
\* installation is not followed by the resolution; with a resolver that is
\* not managed neither is called.
C9_InstallBeforeSteps ==
  /\ (InManifest /\ ~InConfig /\ npm_resolver.managed
        /\ (Started # <<>> \/ Called("parse") \/ Called("resolve_npm_commands")
              \/ Called("execute") \/ pc = "loop")) =>
       /\ Len(calls) >= 2
       /\ calls[1] = "ensure_top_level_package_json_install"
       /\ calls[2] = "resolve_pending"
       /\ CountCalls("ensure_top_level_package_json_install") = 1
       /\ CountCalls("resolve_pending") = 1
  /\ (ReturnedErr("ensure_top_level_package_json_install")
        \/ ReturnedErr("resolve_pending")) =>
       /\ Started = <<>>
       /\ ~Called("parse") /\ ~Called("resolve_npm_commands") /\ ~Called("execute")
  /\ ReturnedErr("ensure_top_level_package_json_install") =>
       ~Called("resolve_pending")
  /\ ~npm_resolver.managed =>
       /\ ~Called("ensure_top_level_package_json_install")
       /\ ~Called("resolve_pending")

C9_Witness ==
  /\ InManifest /\ ~InConfig /\ npm_resolver.managed
  /\ Done
  /\ Len(ran) = 3

\* the last package of the snapshot that exposes the binary name
LastExposing(bin) ==
  snapshot[CHOOSE i \in 1..Len(snapshot) :
             /\ Exposes(snapshot[i], bin)
             /\ \A j \in 1..Len(snapshot) : Exposes(snapshot[j], bin) => j <= i]

\* C10: the table resolve_npm_commands builds has, for every binary name of
\* every top-level package, one handler bound to that name and to the last
\* package of the snapshot that exposes it, and nothing else but "npx"; a
\* shared name raises no error; invoking such a handler runs `deno` with
\* "run", "-A", the specifier and then the received arguments, the
\* specifier being npm:<name>@<version>, followed by /<binary> when the
\* binary name is not the package name.
C10_PackageBinCommands ==
  /\ (IsSome(running) /\ Unwrap(running).source = "package.json"
        /\ npm_resolver.managed) =>
       LET table == Unwrap(running).npx_commands
           bins == UNION {Range(fs[p].bins) : p \in Range(snapshot)}
       IN /\ DOMAIN table = bins \cup {"npx"}
          /\ \A b \in bins :
               table[b] = [kind |-> "NpmPackageBinCommand", name |-> b,
                           npm_package |-> LastExposing(b)]
          /\ IsSome(last_command) =>
               LET c == Unwrap(last_command)
                   h == table[c.name]
                   nv == h.npm_package.name \o "@" \o h.npm_package.version
               IN h.kind = "NpmPackageBinCommand" =>
                    /\ c.outcome.exit = None
                    /\ c.outcome.spawned =
                         Some([program |-> "deno",
                               args |-> <<"run", "-A",
                                          IF c.name = h.npm_package.name
                                            THEN "npm:" \o nv
                                            ELSE "npm:" \o nv \o "/" \o c.name>>
                                        \o c.args])
  /\ (ReturnedErr("resolve_pkg_folder_from_pkg_id")
        \/ ReturnedErr("resolve_binary_commands")) =>
       \E p \in Range(snapshot) : fs[p].err # "none"

C10_Witness ==
  /\ IsSome(running) /\ npm_resolver.managed
  /\ snapshot = <<ToolPkg, OtherPkg>>
  /\ Exposes(ToolPkg, "tool") /\ Exposes(OtherPkg, "tool")
  /\ IsSome(last_command)
  /\ Unwrap(last_command).name = "tool"
  /\ Unwrap(last_command).outcome.spawned =
       Some([program |-> "deno",
             args |-> <<"run", "-A", "npm:other@2.0.0/tool", "x">>])

\* the commands a running script can resolve: its table over the shell's own
Resolvable(table, name) == name \in (DOMAIN table) \cup Builtins

RECURSIVE NpxExpected(_, _)
\* what the npx handler is to do with its arguments, given the table: the
\* diagnostic and exit code 1, or the command to run and its arguments
NpxExpected(table, args) ==
  IF args = <<>>
    THEN [exit |-> Some(1), stderr |-> <<"npx: missing command">>,
          run |-> None]
  ELSE IF ~Resolvable(table, args[1])
    THEN [exit |-> Some(1),
          stderr |-> <<"npx: could not resolve command '" \o args[1] \o "'">>,
          run |-> None]
  ELSE IF args[1] \in DOMAIN table /\ table[args[1]] = NpxCommand
    THEN NpxExpected(table, Tail(args))
  ELSE [exit |-> None, stderr |-> <<>>,
        run |-> Some([name |-> args[1], args |-> Tail(args)])]

\* the last command invoked went to the npx handler
NpxInvoked ==
  /\ IsSome(running) /\ IsSome(last_command)
  /\ Unwrap(running).npx_commands[Unwrap(last_command).name] = NpxCommand

\* C11: the npx handler with no argument writes "npx: missing command" and
\* yields exit code 1; with a first argument the table cannot resolve it
\* writes "npx: could not resolve command '<arg>'" and yields exit code 1;
\* in both cases nothing is invoked; otherwise it invokes the resolved
\* command with the remaining arguments, unchanged and in order.  A failure
\* stays the command's exit code: the driver goes on awaiting the step.
C11_NpxHandler ==
  NpxInvoked =>
    LET c == Unwrap(last_command)
        table == Unwrap(running).npx_commands
        want == NpxExpected(table, c.args)
    IN /\ c.outcome.exit = want.exit
       /\ c.outcome.stderr = want.stderr
       /\ IsSome(c.outcome.spawned) <=> IsSome(want.run)
       /\ IsSome(want.run) =>
            LET run == Unwrap(want.run)
                got == Unwrap(c.outcome.spawned)
            IN IF run.name \in DOMAIN table
                 THEN /\ got.program = "deno"
                      /\ SubSeq(got.args, 1, 2) = <<"run", "-A">>
                      /\ SubSeq(got.args, 4, Len(got.args)) = run.args
                 ELSE got = [program |-> run.name, args |-> run.args]
       /\ pc = "step_run" /\ result = None

C11_Witness ==
  /\ NpxInvoked
  /\ Unwrap(last_command).args = <<"nope">>
  /\ Unwrap(last_command).outcome.exit = Some(1)
  /\ Unwrap(last_command).outcome.stderr =
       <<"npx: could not resolve command 'nope'">>

\* C20: a call of the npx handler ends: every command it hands the call on
\* to takes one argument away, so it hands on at most as many times as it
\* was given arguments, and the call ends in a command that is not npx
\* being run with what is left, or in exit code 1.
C20_NpxTerminates ==
  NpxInvoked =>
    LET c == Unwrap(last_command)
        out == c.outcome
    IN /\ out.hops <= Len(c.args)
       /\ \/ out.exit = Some(1) /\ out.spawned = None
          \/ /\ out.exit = None /\ IsSome(out.spawned)
             /\ out.hops >= 1
             /\ c.args[out.hops] # "npx"
                  \/ Unwrap(running).npx_commands["npx"] # NpxCommand
             /\ LET got == Unwrap(out.spawned)
                    rest == SubSeq(c.args, out.hops + 1, Len(c.args))
                IN got.args = rest
                     \/ (got.program = "deno"
                           /\ SubSeq(got.args, 4, Len(got.args)) = rest)

C20_Witness ==
  /\ NpxInvoked
  /\ Unwrap(last_command).args = <<"npx", "npx", "tool", "x">>
  /\ Unwrap(last_command).outcome.hops = 3
  /\ IsSome(Unwrap(last_command).outcome.spawned)

\* the entries of the listing on stderr
Listed == SelectSeq(stderr, LAMBDA l : "key" \in DOMAIN l)

\* C14: the listing names every task once: the TaskMap entries first, in
\* insertion order, each as a configuration task with its TaskMap script;
\* then the package.json entries whose name is not a key of TaskMap, in
\* insertion order, each marked "(package.json)" with its package.json
\* script.  "No tasks found in configuration file" is printed exactly when
\* no entry is.
C14_Listing ==
  (Done /\ Loaded /\ ~InConfig /\ ~InManifest) =>
    LET rest == SelectSeq(package_json_scripts,
                          LAMBDA e : ~IndexContainsKey(tasks_config, e.key))
        n == Len(tasks_config)
    IN /\ Len(Listed) = n + Len(rest)
       /\ \A i \in 1..n :
            Listed[i] = [key |-> tasks_config[i].key, is_deno |-> TRUE,
                         value |-> tasks_config[i].value]
       /\ \A i \in 1..Len(rest) :
            Listed[n + i] = [key |-> rest[i].key, is_deno |-> FALSE,
                             value |-> rest[i].value]
       /\ \A k \in IndexKeys(tasks_config) \cup IndexKeys(package_json_scripts) :
            Cardinality({i \in 1..Len(Listed) : Listed[i].key = k}) = 1
       /\ (\E i \in 1..Len(stderr) :
             stderr[i] = [line |-> "No tasks found in configuration file"])
            <=> Listed = <<>>

C14_Witness ==
  /\ Done /\ Loaded /\ ~Named
  /\ \E k \in IndexKeys(tasks_config) : IndexContainsKey(package_json_scripts, k)
  /\ \E k \in IndexKeys(package_json_scripts) :
       ~IndexContainsKey(tasks_config, k)
  /\ Len(Listed) = 3

\* the last thing execute_script did was a parse that failed
ParseFailed ==
  Done /\ calls # <<>> /\ calls[Len(calls)] = "parse"

\* C15: a script that does not parse ends the run with the error
\* "Error parsing script '<step>'." naming the step whose script it was;
\* that step has not run and nothing runs after it.
C15_ParseFatal ==
  ParseFailed =>
    LET failing == IF InConfig THEN task_name
                   ELSE ExpectedSteps[Len(ran) + 1]
    IN /\ InConfig \/ Len(ran) < Len(ExpectedSteps)
       /\ ReturnedErr("Error parsing script '" \o failing \o "'.")
       /\ running = None
       /\ \A i \in 1..Len(StartedNames) : StartedNames[i] # failing
       /\ CountCalls("execute") = Len(ran)
       /\ InConfig => ran = <<>>

C15_Witness ==
  /\ ParseFailed
  /\ InManifest /\ ~InConfig
  /\ StartedNames = <<"prebuild">>
  /\ ran[1].exit_code = 0
  /\ ReturnedErr("Error parsing script 'build'.")

\* C16: the steps never overlap: each is executed on a LocalSet of its own
\* and awaited, so a step starts only when every step started before it has
\* completed, and at most one is running.
C16_NoOverlap ==
  /\ CountCalls("execute") = Len(ran) + (IF IsSome(running) THEN 1 ELSE 0)
  /\ CountCalls("LocalSet::new") = CountCalls("execute")
  /\ \A i \in 1..Len(calls) :
       calls[i] = "execute" => (i > 1 /\ calls[i - 1] = "LocalSet::new")
  /\ pc \in {"loop", "done"} => running = None
  /\ IsSome(running) => pc \in {"step_run", "config_run"}

C16_Witness ==
  /\ InManifest /\ ~InConfig
  /\ Len(ran) = 2 /\ IsSome(running)
  /\ Unwrap(running).name = "postbuild"
  /\ CountCalls("LocalSet::new") = 3

\* the number of calls of c among the first n calls
CountBefore(c, n) == Cardinality({i \in 1..(n - 1) : calls[i] = c})

\* C18: the scripts are parsed one step at a time, each when its step is
\* reached: a script of <t> or post<t> that does not parse ends the run only
\* after every step before it has been executed.
C18_LazyParse ==
  (InManifest /\ ~InConfig) =>
    /\ \A p \in 1..Len(calls) :
         calls[p] = "parse" =>
           CountBefore("parse", p) = CountBefore("execute", p)
    /\ \A k \in 1..Len(ExpectedSteps) :
         ReturnedErr("Error parsing script '" \o ExpectedSteps[k] \o "'.") =>
           /\ Len(ran) = k - 1
           /\ StartedNames = SubSeq(ExpectedSteps, 1, k - 1)

C18_Witness ==
  /\ InManifest /\ ~InConfig
  /\ ReturnedErr("Error parsing script 'postbuild'.")
  /\ StartedNames = <<"prebuild", "build">>

\* C19: the arguments are appended to the script of every step that is
\* executed, the hooks as well as the task: each script is the package.json
\* text followed, when there are arguments, by a space and the quoted
\* arguments.
C19_ArgsEveryStep ==
  (InManifest /\ ~InConfig) =>
    \A i \in 1..Len(Started) :
      LET text == Unwrap(IndexGet(package_json_scripts, Started[i].name))
      IN /\ argv = <<>> => Started[i].script = Trim(text)
         /\ argv = << <<"a", "$">> >> =>
              Started[i].script =
                TrimStart(text) \o <<" ", "\"", "a", "\\", "$", "\"">>

C19_Witness ==
  /\ InManifest /\ ~InConfig
  /\ argv # <<>>
  /\ StartedNames = <<"prebuild", "build", "postbuild">>
  /\ Started[1].script = <<"m", "p", " ", " ", "\"", "a", "\\", "$", "\"">>

\* the last thing execute_script did was a table build that failed
ResolutionFailed ==
  Done /\ calls # <<>> /\ calls[Len(calls)] = "resolve_npm_commands"

\* C17: when the folder lookup or the binary discovery fails for a top-level
\* package, the build of the command table fails and execute_script returns
\* that error; the step being prepared does not run, and no hook step has
\* been executed by then.
C17_ResolutionIsSetupFailure ==
  ResolutionFailed =>
    /\ \/ ReturnedErr("resolve_pkg_folder_from_pkg_id")
       \/ ReturnedErr("resolve_binary_commands")
    /\ \E p \in Pkgs : fs[p].err # "none"
    /\ running = None
    /\ ran = <<>>

RECURSIVE PathAfter(_, _)
\* PATH after the prepends of values to a map whose PATH was start (None
\* when it had none): unset or empty, it becomes the value; otherwise the
\* value, the separator and what it was
PathAfter(start, values) ==
  IF values = <<>> THEN start
  ELSE LET old == PathAfter(start, SubSeq(values, 1, Len(values) - 1))
           value == values[Len(values)]
       IN IF old = None \/ old = Some("")
            THEN Some(value)
            ELSE Some(value \o (IF cfg_windows THEN ";" ELSE ":")
                            \o Unwrap(old))

RECURSIVE NewestFirst(_)
\* the values joined by the separator, the last prepended first
NewestFirst(values) ==
  IF Len(values) = 1 THEN values[1]
  ELSE values[Len(values)] \o (IF cfg_windows THEN ";" ELSE ":")
         \o NewestFirst(SubSeq(values, 1, Len(values) - 1))

PathOf(env) == IF "PATH" \in DOMAIN env THEN Some(env["PATH"]) ELSE None

\* C12: prepending v makes PATH exactly v when PATH was unset, exactly v
\* when it was empty, and v, the separator and the old PATH otherwise; so
\* after prepends of non-empty values from an unset or empty PATH, PATH is
\* those values joined by the separator, the last prepended first, none
\* lost; no other variable is added, removed or changed.
C12_PrependToPath ==
  /\ PathOf(path_env) = PathAfter(PathOf(path_start), prepended)
  /\ (/\ prepended # <<>>
      /\ PathOf(path_start) \in {None, Some("")}
      /\ \A i \in 1..Len(prepended) : prepended[i] # "") =>
       path_env["PATH"] = NewestFirst(prepended)
  /\ \A k \in (DOMAIN path_env \cup DOMAIN path_start) \ {"PATH"} :
       /\ k \in DOMAIN path_env /\ k \in DOMAIN path_start
       /\ path_env[k] = path_start[k]
  /\ prepended # <<>> => "PATH" \in DOMAIN path_env

C12_Witness ==
  /\ path_start = [k \in {"HOME", "PATH"} |-> IF k = "PATH" THEN "" ELSE "/h"]
  /\ prepended = <<"/example", "/example2", "/example">>
  /\ path_env["PATH"] = "/example:/example2:/example"
  /\ path_env["HOME"] = "/h"

\* the number of backslashes that end at position n of s
RECURSIVE BackslashesBefore(_, _)
BackslashesBefore(s, n) ==
  IF n >= 1 /\ s[n] = "\\" THEN 1 + BackslashesBefore(s, n - 1) ELSE 0

\* C13: get_script_with_args returns the script, a space and the arguments,
\* each between double quotes and a single space apart, trimmed; without
\* arguments that is the trimmed script.  Inside the quotes of an argument
\* every '"' and every '$' is preceded by an odd number of backslashes, so
\* the shell reads it as that character.
C13_QuotedArgs ==
  IsSome(script_with_args) =>
    /\ Len(quoted_args) = Len(arg_argv)
    /\ Unwrap(script_with_args) =
         Trim(arg_script \o <<" ">> \o Join(quoted_args, <<" ">>))
    /\ arg_argv = <<>> => Unwrap(script_with_args) = Trim(arg_script)
    /\ \A i \in 1..Len(quoted_args) :
         LET q == quoted_args[i]
         IN /\ Len(q) >= 2 /\ q[1] = "\"" /\ q[Len(q)] = "\""
            /\ \A j \in 2..(Len(q) - 1) :
                 q[j] \in {"\"", "$"} => BackslashesBefore(q, j - 1) % 2 = 1

====
